---- MODULE Spec2Model ----
(***************************************************************************)
(* concurrent::unordered_map (concurrent_unordered_map.h) on top of        *)
(* concurrent::internal::container_base (internal/container_base.h): a     *)
(* std::unordered_map guarded by a std::shared_mutex.                      *)
(*                                                                         *)
(* One instance is shared by NumThreads threads.  A public operation is    *)
(*   Call  : the thread enters the operation (idle -> lock)                *)
(*   Lock  : std::shared_lock / std::unique_lock constructor (lock -> body)*)
(*   Step  : one step of the lambda run on _internal_container             *)
(*   Throw : the lambda raises instead of taking its next step             *)
(*   Unlock: the lock object's destructor, on return or during unwinding   *)
(*   Catch : the caller handles a propagated exception (raised -> idle)    *)
(***************************************************************************)
EXTENDS Integers, FiniteSets, Sequences, TLC

\* ------------------------------------------------------------- bounds
NumThreads == 2
NumKeys == 2
\* number of exclusive operations ever invoked (shared ones leave no trace)
MaxWrites == 3
\* keys each worker of the bulk insertion inserts
ItemsPerThread == 2

Threads == 1..NumThreads
Keys == 1..NumKeys

\* Value(): what operator[] value-initialises a missing entry to (int)
DefaultValue == 0
\* the value the callers store under key k (tests: map.insert(key, key * 10));
\* the container never looks at a value, and the incrementing lambda makes
\* the others
ValueFor(k) == k * 10

\* std::optional<Value>: <<>> is std::nullopt, <<v>> holds v
nullopt == <<>>
Some(v) == <<v>>

\* ------------------------------------------------------------- state
VARIABLES
  m,          \* _internal_container: a function from the present keys to values
  held,       \* _mutex: the mode in which each thread holds it
  want,       \* the mode of the lock object a thread constructs
  pc,         \* where each thread is: idle, lock, body, unlock, raised
  op,         \* the operation a thread is in
  key, val,   \* its arguments
  step,       \* the next step of the lambda body
  loc,        \* the lambda's local (an iterator's value), an optional
  ret,        \* the value the lambda returned
  exc,        \* an exception is propagating out of the lambda
  pre,        \* history: the container when the thread got the exclusive lock
  ser,        \* history: the container after running the finished exclusive
              \* operations one after another, in the order they released
  completed,  \* history: how many exclusive operations have released
  fresh,      \* history: per key, the value a returned insert(k, v) stored and
              \* no later writer of k has been granted the lock since
  snap,       \* a caller's vector: the result of the last snapshot() returned
  cont,       \* _internal_container of the other instances: B, and C, the one
              \* a move constructor builds
  mtx,        \* _mutex of the other instances: the mode each thread holds it in
  alive       \* C has been constructed

vars == <<m, held, want, pc, op, key, val, step, loc, ret, exc, pre, ser, completed,
          fresh, snap, cont, mtx, alive>>

\* the instances: A is the one whose fields are m and held; B is another
\* one, and C is the object a move constructor builds
Others == {"B", "C"}
Instances == {"A"} \cup Others

\* a default-constructed std::unordered_map
EmptyMap == [j \in {} |-> DefaultValue]

SharedOps == {"find", "count", "contains", "size", "empty", "snapshot",
              "execute_shared"}
ExclusiveOps == {"insert_pair", "insert", "emplace", "erase", "clear",
                 "execute_exclusive", "sum_and_clear"}
Ops == SharedOps \cup ExclusiveOps

\* ------------------------------------------------- std::unordered_map
Present(mm, k) == k \in DOMAIN mm
Lookup(mm, k) == IF Present(mm, k) THEN Some(mm[k]) ELSE nullopt
Size(mm) == Cardinality(DOMAIN mm)
\* the map with k bound to v, whether or not k was present
Put(mm, k, v) == [j \in DOMAIN mm \cup {k} |-> IF j = k THEN v ELSE mm[j]]
Remove(mm, k) == [j \in DOMAIN mm \ {k} |-> mm[j]]

\* what one step of a lambda leaves behind; next = 0 when the lambda returns
Eff(mm, l, r, next) == [m |-> mm, loc |-> l, ret |-> r, next |-> next]

\* ------------------------------------------------------- lambda bodies
\* Each body maps (container, key, value, local, step) to the effect of that
\* step.  Steps are numbered from 1.

\* (mutant) insert(P&&) written as an assignment: m[obj.first] = obj.second
insert_pair_body_assign(mm, k, v, l, i) == Eff(Put(mm, k, v), l, Some(~Present(mm, k)), 0)

\* insert(P&&): m.insert(std::forward<P>(obj)).second
insert_pair_body(mm, k, v, l, i) ==
  IF Present(mm, k) THEN Eff(mm, l, Some(FALSE), 0)
                    ELSE Eff(Put(mm, k, v), l, Some(TRUE), 0)

\* (mutant) insert(key, value) written as m.insert({key, value})
insert_body_ifAbsent(mm, k, v, l, i) ==
  IF i = 1 THEN Eff(mm, l, nullopt, 2)
  ELSE Eff(IF Present(mm, k) THEN mm ELSE Put(mm, k, v), l, nullopt, 0)

\* (mutant) insert(key, value) written as m[key] == value: a comparison
insert_body_noAssign(mm, k, v, l, i) ==
  IF i = 1
    THEN Eff(IF Present(mm, k) THEN mm ELSE Put(mm, k, DefaultValue), l, nullopt, 2)
    ELSE Eff(mm, l, nullopt, 0)

\* insert(key, value): m[key] = value, i.e. operator[] (which creates a
\* value-initialised entry for a missing key), then the assignment
insert_body(mm, k, v, l, i) ==
  IF i = 1
    THEN Eff(IF Present(mm, k) THEN mm ELSE Put(mm, k, DefaultValue), l, nullopt, 2)
    ELSE Eff(Put(mm, k, v), l, nullopt, 0)

\* (mutant) find returning a value-initialised Value for a missing key
find_body_valueOrDefault(mm, k, v, l, i) ==
  Eff(mm, l, Some(IF Present(mm, k) THEN Some(mm[k]) ELSE Some(DefaultValue)), 0)

\* (mutant) find written with operator[]: return m[key]
find_body_subscript(mm, k, v, l, i) ==
  IF Present(mm, k) THEN Eff(mm, l, Some(Some(mm[k])), 0)
  ELSE Eff(Put(mm, k, DefaultValue), l, Some(Some(DefaultValue)), 0)

\* find: it = m.find(key); a copy of it->second, or std::nullopt
find_body(mm, k, v, l, i) == Eff(mm, l, Some(Lookup(mm, k)), 0)

\* (mutant) emplace written as an assignment
emplace_body_assign(mm, k, v, l, i) == Eff(Put(mm, k, v), l, Some(~Present(mm, k)), 0)

\* emplace: m.emplace(std::forward<Args>(args)...).second
emplace_body(mm, k, v, l, i) ==
  IF Present(mm, k) THEN Eff(mm, l, Some(FALSE), 0)
                    ELSE Eff(Put(mm, k, v), l, Some(TRUE), 0)

\* (mutant) erase written as m.count(key): it reports the key and leaves it
erase_body_countOnly(mm, k, v, l, i) ==
  Eff(mm, l, Some(IF Present(mm, k) THEN 1 ELSE 0), 0)

\* (mutant) erase returning 1 whether or not it removed anything
erase_body_alwaysOne(mm, k, v, l, i) ==
  Eff(IF Present(mm, k) THEN Remove(mm, k) ELSE mm, l, Some(1), 0)

\* erase: m.erase(key)
erase_body(mm, k, v, l, i) ==
  IF Present(mm, k) THEN Eff(Remove(mm, k), l, Some(1), 0)
                    ELSE Eff(mm, l, Some(0), 0)

\* (mutant) clear written as m.erase(m.begin()): it drops one entry
clear_body_eraseOne(mm, k, v, l, i) ==
  IF mm = EmptyMap THEN Eff(mm, l, nullopt, 0)
  ELSE Eff(Remove(mm, CHOOSE j \in DOMAIN mm : \A h \in DOMAIN mm : j <= h), l, nullopt, 0)

\* clear: m.clear()
clear_body(mm, k, v, l, i) == Eff(EmptyMap, l, nullopt, 0)

\* (mutant) count reporting the number of stored entries
count_body_size(mm, k, v, l, i) == Eff(mm, l, Some(Size(mm)), 0)

\* count: m.count(key)
count_body(mm, k, v, l, i) == Eff(mm, l, Some(IF Present(mm, k) THEN 1 ELSE 0), 0)

\* contains: m.contains(key)
contains_body(mm, k, v, l, i) == Eff(mm, l, Some(Present(mm, k)), 0)

\* size: c.size()
size_body(mm, k, v, l, i) == Eff(mm, l, Some(Size(mm)), 0)

\* empty: c.empty()
empty_body(mm, k, v, l, i) == Eff(mm, l, Some(Size(mm) = 0), 0)

\* (mutant) a vector element that refers to the container's entry
SnapshotPair_byReference(mm, j) == <<j>>

\* the element push_back({pair.first, pair.second}) stores: copies of both
SnapshotPair(mm, j) == <<j, mm[j]>>

\* what a caller reads from element e of a vector of pairs
PairOf(e, mm) == IF Len(e) = 2 THEN e ELSE <<e[1], Lookup(mm, e[1])>>

\* the keys `for (const auto &pair : m)` has still to visit, data being the
\* vector built so far.  The iteration order of std::unordered_map is not
\* specified; the model visits the keys from the largest to the smallest.
Unvisited(mm, data) ==
  IF data = <<>> THEN DOMAIN mm
  ELSE {j \in DOMAIN mm : j < data[Len(data)][1]}

\* snapshot: data.reserve(m.size()), then one push_back per entry, then
\* return data; the local l is the vector
snapshot_body(mm, k, v, l, i) ==
  CASE i = 1 -> Eff(mm, <<>>, nullopt, 2)
    [] OTHER ->
         LET rest == Unvisited(mm, l)
         IN IF rest = {} THEN Eff(mm, l, Some(l), 0)
            ELSE LET j == CHOOSE x \in rest : \A y \in rest : y <= x
                 IN Eff(mm, Append(l, SnapshotPair(mm, j)), nullopt, 2)

\* a caller's read-only lambda for execute_shared: internal_map.count(key)
shared_callback(mm, k, v, l, i) ==
  Eff(mm, l, Some(IF Present(mm, k) THEN 1 ELSE 0), 0)

\* a caller's lambda for execute_exclusive that reads and then conditionally
\* writes: it = find(key); if found, it->second = it->second + 1; it returns
\* whether it found the key
exclusive_callback(mm, k, v, l, i) ==
  CASE i = 1 -> Eff(mm, Lookup(mm, k), nullopt, 2)
    [] i = 2 -> Eff(IF l # nullopt THEN Put(mm, k, l[1] + 1) ELSE mm, l, nullopt, 3)
    [] OTHER -> Eff(mm, l, Some(l # nullopt), 0)

\* the sum of the values stored in mm
RECURSIVE SumValues(_)
SumValues(mm) ==
  IF DOMAIN mm = {} THEN 0
  ELSE LET j == CHOOSE x \in DOMAIN mm : TRUE
       IN mm[j] + SumValues(Remove(mm, j))

\* a caller's lambda for execute_exclusive that computes and then modifies:
\* sum = 0; for (pair : internal_map) sum += pair.second;
\* internal_map.clear(); return sum
sum_and_clear_callback(mm, k, v, l, i) ==
  CASE i = 1 -> Eff(mm, Some(SumValues(mm)), nullopt, 2)
    [] i = 2 -> Eff(EmptyMap, l, nullopt, 3)
    [] OTHER -> Eff(mm, l, l, 0)

Body(o, mm, k, v, l, i) ==
  CASE o = "insert_pair" -> insert_pair_body(mm, k, v, l, i)
    [] o = "insert" -> insert_body(mm, k, v, l, i)
    [] o = "find" -> find_body(mm, k, v, l, i)
    [] o = "emplace" -> emplace_body(mm, k, v, l, i)
    [] o = "erase" -> erase_body(mm, k, v, l, i)
    [] o = "clear" -> clear_body(mm, k, v, l, i)
    [] o = "count" -> count_body(mm, k, v, l, i)
    [] o = "contains" -> contains_body(mm, k, v, l, i)
    [] o = "size" -> size_body(mm, k, v, l, i)
    [] o = "empty" -> empty_body(mm, k, v, l, i)
    [] o = "snapshot" -> snapshot_body(mm, k, v, l, i)
    [] o = "execute_shared" -> shared_callback(mm, k, v, l, i)
    [] o = "execute_exclusive" -> exclusive_callback(mm, k, v, l, i)
    [] o = "sum_and_clear" -> sum_and_clear_callback(mm, k, v, l, i)

\* Whether step i of the body can raise instead of running: a node
\* allocation (insert/emplace/operator[] of a missing key), the copy of a
\* Value (the assignment in insert(key, value), the copy find returns), or
\* the allocation and the copies of snapshot, or any point of a caller's
\* lambda.  erase, clear and the size queries do not raise.
MayThrow(o, mm, k, i) ==
  CASE o \in {"insert_pair", "emplace"} -> TRUE
    [] o = "insert" -> i = 2 \/ ~Present(mm, k)
    [] o = "find" -> Present(mm, k)
    [] o = "snapshot" -> TRUE
    [] o \in {"execute_shared", "execute_exclusive", "sum_and_clear"} -> TRUE
    [] OTHER -> FALSE

\* The operation run alone, from its first step up to (not including) step
\* `stop`; stop = 0 runs it to its return.
RECURSIVE RunFrom(_, _, _, _, _, _, _)
RunFrom(o, mm, k, v, l, i, stop) ==
  IF i = stop THEN mm
  ELSE LET e == Body(o, mm, k, v, l, i)
       IN IF e.next = 0 THEN e.m ELSE RunFrom(o, e.m, k, v, e.loc, e.next, stop)

Sequential(o, mm, k, v, stop) == RunFrom(o, mm, k, v, nullopt, 1, stop)

\* ------------------------------------------------------------ the lock
\* the lock object each primitive constructs
execute_shared_lock == "shared"
\* (mutant) execute_exclusive constructing a std::shared_lock
execute_exclusive_lock_shared == "shared"
execute_exclusive_lock == "unique"

LockMode(o) ==
  IF o \in SharedOps \cup {"shared_calls_insert"} THEN execute_shared_lock
                                                     ELSE execute_exclusive_lock

\* (mutant) MutexT without shared ownership (std::mutex): every lock waits
\* until nobody holds it
CanLock_plainMutex(mode) == \A u \in Threads : held[u] = "none"

\* (mutant) a mutex whose lock_shared() does not wait for the exclusive holder
CanLock_readersNeverWait(mode) ==
  mode = "shared" \/ \A u \in Threads : held[u] = "none"

\* std::shared_mutex: lock() waits until nobody holds it, lock_shared() until
\* nobody holds it exclusively
CanLock(mode) ==
  IF mode = "unique" THEN \A u \in Threads : held[u] = "none"
                     ELSE \A u \in Threads : held[u] # "unique"

\* (mutant) an explicit unlock() after func returns instead of a scoped lock
Released_onReturnOnly(t, thrown) == IF thrown THEN held ELSE [held EXCEPT ![t] = "none"]

\* the lock object's destructor: it runs when the primitive returns and when
\* an exception unwinds through it
Released(t, thrown) == [held EXCEPT ![t] = "none"]

\* --------------------------------------------------------- operations
\* callers' lambdas that call back into the same instance: a lambda under
\* execute_shared calling insert, and lambdas under execute_exclusive
\* calling insert and find
ReenterOps == {"shared_calls_insert", "exclusive_calls_insert", "exclusive_calls_find"}

\* the lock the operation called from inside the lambda constructs
InnerLock(o) == IF o = "exclusive_calls_find" THEN execute_shared_lock
                                              ELSE execute_exclusive_lock

KeyedOps == Ops \ {"clear", "size", "empty", "snapshot", "sum_and_clear"}
ValuedOps == {"insert_pair", "insert", "emplace"}
KeysOf(o) == IF o \in KeyedOps THEN Keys ELSE {0}
ValueOf(o, k) == IF o \in ValuedOps THEN ValueFor(k) ELSE DefaultValue
\* the exclusive operations that write key k when they take effect
Writes(o, k, j) == o \in {"clear", "sum_and_clear"} \/ (o \in ExclusiveOps /\ j = k)

InFlightExclusive ==
  {t \in Threads : pc[t] \in {"lock", "body", "unlock"} /\ want[t] = execute_exclusive_lock}

Init ==
  /\ m = EmptyMap
  /\ held = [t \in Threads |-> "none"]
  /\ want = [t \in Threads |-> "none"]
  /\ pc = [t \in Threads |-> "idle"]
  /\ op = [t \in Threads |-> "none"]
  /\ key = [t \in Threads |-> 0]
  /\ val = [t \in Threads |-> DefaultValue]
  /\ step = [t \in Threads |-> 0]
  /\ loc = [t \in Threads |-> nullopt]
  /\ ret = [t \in Threads |-> nullopt]
  /\ exc = [t \in Threads |-> FALSE]
  /\ pre = [t \in Threads |-> EmptyMap]
  /\ ser = EmptyMap
  /\ completed = 0
  /\ fresh = [k \in Keys |-> nullopt]
  /\ snap = <<>>
  /\ cont = [x \in Others |-> EmptyMap]
  /\ mtx = [x \in Others |-> [t \in Threads |-> "none"]]
  /\ alive = FALSE

\* A thread enters a public operation.  Every public operation is a call of
\* execute_shared or of execute_exclusive with a lambda, so until the lock is
\* granted the operations differ only in the lock they ask for.
Call(t, mode) ==
  /\ pc[t] = "idle"
  /\ mode = execute_exclusive_lock
       => completed + Cardinality(InFlightExclusive) < MaxWrites
  /\ pc' = [pc EXCEPT ![t] = "lock"]
  /\ want' = [want EXCEPT ![t] = mode]
  /\ UNCHANGED <<m, held, op, key, val, step, loc, ret, exc, pre, ser, completed, fresh, snap, cont, mtx, alive>>

\* std::shared_lock<MutexT> lock(_mutex) / std::unique_lock<MutexT> lock(_mutex)
\* is granted, and the lambda of operation o starts with its captures
Lock(t, o, k) ==
  /\ pc[t] = "lock"
  /\ want[t] = LockMode(o)
  /\ CanLock(want[t])
  /\ held' = [held EXCEPT ![t] = want[t]]
  /\ pc' = [pc EXCEPT ![t] = "body"]
  /\ op' = [op EXCEPT ![t] = o]
  /\ key' = [key EXCEPT ![t] = k]
  /\ val' = [val EXCEPT ![t] = ValueOf(o, k)]
  /\ step' = [step EXCEPT ![t] = 1]
  /\ pre' = [pre EXCEPT ![t] = IF o \in ExclusiveOps THEN m ELSE EmptyMap]
  /\ fresh' = [j \in Keys |-> IF Writes(o, k, j) THEN nullopt ELSE fresh[j]]
  /\ UNCHANGED <<m, want, loc, ret, exc, ser, completed, snap, cont, mtx, alive>>

\* (mutant) the primitive handing the lambda a copy of the container:
\* auto c = _internal_container; return func(c)
Step_onCopy(t) ==
  /\ pc[t] = "body"
  /\ op[t] \notin ReenterOps
  /\ LET e == Body(op[t], m, key[t], val[t], loc[t], step[t])
     IN /\ loc' = [loc EXCEPT ![t] = e.loc]
        /\ ret' = [ret EXCEPT ![t] = e.ret]
        /\ step' = [step EXCEPT ![t] = e.next]
        /\ pc' = [pc EXCEPT ![t] = IF e.next = 0 THEN "unlock" ELSE "body"]
  /\ UNCHANGED <<m, held, want, op, key, val, exc, pre, ser, completed, fresh, snap, cont, mtx, alive>>

\* func(_internal_container): one step of the lambda
Step(t) ==
  /\ pc[t] = "body"
  /\ op[t] \notin ReenterOps
  /\ LET e == Body(op[t], m, key[t], val[t], loc[t], step[t])
     IN /\ m' = e.m
        /\ loc' = [loc EXCEPT ![t] = e.loc]
        /\ ret' = [ret EXCEPT ![t] = e.ret]
        /\ step' = [step EXCEPT ![t] = e.next]
        /\ pc' = [pc EXCEPT ![t] = IF e.next = 0 THEN "unlock" ELSE "body"]
  /\ UNCHANGED <<held, want, op, key, val, exc, pre, ser, completed, fresh, snap, cont, mtx, alive>>

\* the lambda raises instead of taking its next step
Throw(t) ==
  /\ pc[t] = "body"
  /\ MayThrow(op[t], m, key[t], step[t])
  /\ pc' = [pc EXCEPT ![t] = "unlock"]
  /\ exc' = [exc EXCEPT ![t] = TRUE]
  /\ UNCHANGED <<m, held, want, op, key, val, step, loc, ret, pre, ser, completed, fresh, snap, cont, mtx, alive>>

\* leaving the primitive's scope, with the result or with the exception
Unlock(t) ==
  /\ pc[t] = "unlock"
  /\ held' = Released(t, exc[t])
  /\ pc' = [pc EXCEPT ![t] = IF exc[t] THEN "raised" ELSE "idle"]
  /\ IF op[t] \in ExclusiveOps
       THEN /\ ser' = Sequential(op[t], ser, key[t], val[t],
                                 IF exc[t] THEN step[t] ELSE 0)
            /\ completed' = completed + 1
       ELSE UNCHANGED <<ser, completed>>
  /\ fresh' = IF op[t] = "insert" /\ ~exc[t]
                THEN [j \in Keys |-> IF j = key[t] THEN Some(val[t]) ELSE fresh[j]]
                ELSE fresh
  /\ want' = [want EXCEPT ![t] = "none"]
  /\ op' = [op EXCEPT ![t] = "none"]
  /\ key' = [key EXCEPT ![t] = 0]
  /\ val' = [val EXCEPT ![t] = DefaultValue]
  /\ step' = [step EXCEPT ![t] = 0]
  /\ loc' = [loc EXCEPT ![t] = nullopt]
  /\ ret' = [ret EXCEPT ![t] = nullopt]
  /\ exc' = [exc EXCEPT ![t] = FALSE]
  /\ pre' = [pre EXCEPT ![t] = EmptyMap]
  /\ snap' = IF op[t] = "snapshot" /\ ~exc[t] THEN ret[t][1] ELSE snap
  /\ UNCHANGED <<m, cont, mtx, alive>>

\* the caller has received the exception
Catch(t) ==
  /\ pc[t] = "raised"
  /\ pc' = [pc EXCEPT ![t] = "idle"]
  /\ UNCHANGED <<m, held, want, op, key, val, step, loc, ret, exc, pre, ser, completed, fresh, snap, cont, mtx, alive>>

\* std::sort of a vector of pairs with distinct keys
Sorted(s) ==
  LET elems == {s[n] : n \in 1..Len(s)}
  IN [n \in 1..Len(s) |->
        CHOOSE e \in elems : Cardinality({f \in elems : f[1] < e[1]}) = n - 1]

\* the caller changes the vector a snapshot() returned: std::sort(begin, end)
SortSnapshot ==
  /\ snap # <<>>
  /\ snap' = Sorted(snap)
  /\ UNCHANGED <<m, held, want, pc, op, key, val, step, loc, ret, exc, pre, ser,
                 completed, fresh, cont, mtx, alive>>

\* the lambda calls an operation of the same instance, which constructs its
\* lock on the _mutex this thread holds.  std::shared_mutex then makes the
\* behaviour undefined: implementations leave the thread waiting for itself
\* (no step), or detect a thread that owns the mutex exclusively and raise
InnerCall(t) ==
  /\ pc[t] = "body"
  /\ op[t] \in ReenterOps
  /\ pc' = [pc EXCEPT ![t] = "relock"]
  /\ UNCHANGED <<m, held, want, op, key, val, step, loc, ret, exc, pre, ser, completed,
                 fresh, snap, cont, mtx, alive>>

\* std::system_error(resource_deadlock_would_occur) out of the inner lock;
\* it unwinds the inner operation and the lambda
InnerRaise(t) ==
  /\ pc[t] = "relock"
  /\ held[t] = "unique"
  /\ pc' = [pc EXCEPT ![t] = "unlock"]
  /\ exc' = [exc EXCEPT ![t] = TRUE]
  /\ UNCHANGED <<m, held, want, op, key, val, step, loc, ret, pre, ser, completed,
                 fresh, snap, cont, mtx, alive>>

\* m.emplace(std::forward<Args>(args)...) may construct the element before
\* it looks the key up ("the element may be constructed even if there
\* already is an element with the key"; libstdc++ builds the node first):
\* the node takes the arguments, rvalue arguments being moved from.  The
\* lambda's local then holds the node's value.  A library that extracts the
\* key first skips this step.
ConstructNode(t) ==
  /\ pc[t] = "body"
  /\ op[t] = "emplace"
  /\ step[t] = 1
  /\ loc[t] = nullopt
  /\ loc' = [loc EXCEPT ![t] = Some(val[t])]
  /\ UNCHANGED <<m, held, want, pc, op, key, val, step, ret, exc, pre, ser, completed,
                 fresh, snap, cont, mtx, alive>>

\* the value of the caller's argument object once emplace is over: a
\* moved-from object (value-initialised here) when a node was built from it
ArgumentAfter(t) == IF loc[t] # nullopt THEN DefaultValue ELSE val[t]

\* the steps of the threads when they invoke the operations of the set W
Run(W) ==
  \E t \in Threads :
    \/ \E mode \in {execute_shared_lock, execute_exclusive_lock} : Call(t, mode)
    \/ \E o \in W : \E k \in KeysOf(o) : Lock(t, o, k)
    \/ Step(t)
    \/ Throw(t)
    \/ Unlock(t)
    \/ Catch(t)

\* the writers and find
MapOps == {"insert_pair", "insert", "emplace", "erase", "clear",
           "execute_exclusive", "find"}
Next == Run(MapOps)
Spec == Init /\ [][Next]_vars

\* the query workload: every query of the map against emplace and erase
QueryOps == {"find", "count", "contains", "size", "empty", "emplace", "erase"}

NextQuery == Run(QueryOps)

SpecQuery == Init /\ [][NextQuery]_vars

\* the snapshot workload: snapshot and the caller's use of its result against
\* the writers of the map
SnapshotOps == {"snapshot", "emplace", "erase", "clear"}

NextSnapshot == Run(SnapshotOps) \/ SortSnapshot

SpecSnapshot == Init /\ [][NextSnapshot]_vars

\* --------------------------------------------------- the bulk insertion
\* insert_worker(map, start, count): thread t is given start and
\* count = ItemsPerThread, and inserts the keys start + i for i < count
\* (keys are numbered from 1 here, 0 standing for "no key")
BulkStart(t) == (t - 1) * ItemsPerThread + 1
OwnKeys(t) == {BulkStart(t) + i : i \in 0..(ItemsPerThread - 1)}
BulkKeys == 1..(NumThreads * ItemsPerThread)

\* the keys of the iterations the worker has still to run: it alone inserts
\* its keys and nothing erases, so these are its keys not yet stored
Remaining(t) == OwnKeys(t) \ DOMAIN m

\* the worker's next iteration calls map.insert(key, key * 10)
BulkCall(t) ==
  /\ pc[t] = "idle"
  /\ Remaining(t) # {}
  /\ pc' = [pc EXCEPT ![t] = "lock"]
  /\ want' = [want EXCEPT ![t] = execute_exclusive_lock]
  /\ UNCHANGED <<m, held, op, key, val, step, loc, ret, exc, pre, ser, completed,
                 fresh, snap, cont, mtx, alive>>

BulkLock(t) ==
  /\ want[t] = execute_exclusive_lock
  /\ \E k \in Remaining(t) :
       /\ \A j \in Remaining(t) : k <= j
       /\ Lock(t, "insert", k)

\* every worker has been joined
AllJoined ==
  /\ \A t \in Threads : Remaining(t) = {}
  /\ \A t \in Threads : want[t] # execute_exclusive_lock

\* after the joins the test reads map.size() and map.find(i) for every key
VerifyCall(t) == AllJoined /\ Call(t, execute_shared_lock)

VerifyLock(t) ==
  /\ want[t] = execute_shared_lock
  /\ \/ Lock(t, "size", 0)
     \/ \E k \in BulkKeys : Lock(t, "find", k)

NextBulk ==
  \E t \in Threads :
    \/ BulkCall(t)
    \/ BulkLock(t)
    \/ VerifyCall(t)
    \/ VerifyLock(t)
    \/ Step(t)
    \/ Unlock(t)

SpecBulk == Init /\ [][NextBulk]_vars

\* the callers' lambdas run through the two primitives, against emplace
ExecuteOps == {"execute_shared", "execute_exclusive", "sum_and_clear", "emplace"}

NextExecute == Run(ExecuteOps)

SpecExecute == Init /\ [][NextExecute]_vars

\* ------------------------------------------------------------ moving
\* container_base(container_base &&other) and operator=(container_base &&other),
\* named by the statement that runs them
MoveAssignOps == {"A=move(B)", "B=move(A)", "A=move(A)"}
MoveConstructOps == {"C(move(A))", "C(move(B))"}

\* *this and other of a move
This(o) ==
  CASE o \in {"A=move(B)", "A=move(A)"} -> "A"
    [] o = "B=move(A)" -> "B"
    [] OTHER -> "C"
Other(o) == IF o \in {"B=move(A)", "A=move(A)", "C(move(A))"} THEN "A" ELSE "B"

\* the fields of instance x
Container(x) == IF x = "A" THEN m ELSE cont[x]
Holders(x) == IF x = "A" THEN held ELSE mtx[x]

\* the locks operator= constructs on this->_mutex and on other._mutex
\* (mutant first: a std::shared_lock on this->_mutex)
move_self_lock_shared == "shared"
move_self_lock == "unique"
move_other_lock == "unique"

\* the mutex of x can be locked in the mode
CanLockOn(x, mode) ==
  IF x = "A" THEN CanLock(mode)
  ELSE IF mode = "unique" THEN \A u \in Threads : mtx[x][u] = "none"
       ELSE \A u \in Threads : mtx[x][u] # "unique"

\* thread t holds the mutex of x in the mode from now on
SetHolder(t, x, mode) ==
  /\ held' = IF x = "A" THEN [held EXCEPT ![t] = mode] ELSE held
  /\ mtx' = IF x = "A" THEN mtx ELSE [mtx EXCEPT ![x][t] = mode]

\* the containers named in the function f become f[x]; a move of A's
\* container is a write of A like the exclusive operations
SetContainers(f) ==
  /\ m' = IF "A" \in DOMAIN f THEN f["A"] ELSE m
  /\ ser' = IF "A" \in DOMAIN f THEN f["A"] ELSE ser
  /\ cont' = [x \in Others |-> IF x \in DOMAIN f THEN f[x] ELSE cont[x]]

\* operator= is called; if (this != &other) it goes on to lock
MoveAssignCall(t, o) ==
  /\ pc[t] = "idle"
  /\ o \in MoveAssignOps
  /\ op' = [op EXCEPT ![t] = o]
  /\ pc' = [pc EXCEPT ![t] = IF This(o) # Other(o) THEN "self_lock" ELSE "move_return"]
  /\ UNCHANGED <<m, held, want, key, val, step, loc, ret, exc, pre, ser, completed,
                 fresh, snap, cont, mtx, alive>>

\* std::unique_lock<MutexT> self_lock(_mutex)
MoveLockSelf(t) ==
  /\ pc[t] = "self_lock"
  /\ CanLockOn(This(op[t]), move_self_lock)
  /\ SetHolder(t, This(op[t]), move_self_lock)
  /\ pc' = [pc EXCEPT ![t] = "other_lock"]
  /\ UNCHANGED <<m, want, op, key, val, step, loc, ret, exc, pre, ser, completed,
                 fresh, snap, cont, alive>>

\* std::unique_lock<MutexT> other_lock(other._mutex)
MoveLockOther(t) ==
  /\ pc[t] = "other_lock"
  /\ CanLockOn(Other(op[t]), move_other_lock)
  /\ SetHolder(t, Other(op[t]), move_other_lock)
  /\ pc' = [pc EXCEPT ![t] = "transfer"]
  /\ step' = [step EXCEPT ![t] = 1]
  /\ pre' = [pre EXCEPT ![t] = Container(Other(op[t]))]
  /\ UNCHANGED <<m, want, op, key, val, loc, ret, exc, ser, completed, fresh, snap,
                 cont, alive>>

\* _internal_container = std::move(other._internal_container): the
\* destination frees its own entries, takes over those of the source, and
\* the source is reset (left empty)
MoveTransfer(t) ==
  /\ pc[t] = "transfer"
  /\ LET d == This(op[t])
         s == Other(op[t])
     IN CASE step[t] = 1 -> SetContainers([x \in {d} |-> EmptyMap])
          [] step[t] = 2 -> SetContainers([x \in {d} |-> Container(s)])
          [] OTHER -> SetContainers([x \in {s} |-> EmptyMap])
  /\ step' = [step EXCEPT ![t] = IF step[t] < 3 THEN step[t] + 1 ELSE 0]
  /\ pc' = [pc EXCEPT ![t] = IF step[t] < 3 THEN "transfer" ELSE "release_other"]
  /\ UNCHANGED <<held, want, op, key, val, loc, ret, exc, pre, completed, fresh, snap,
                 mtx, alive>>

\* (mutant) other_lock.release(): the lock object lets go of the mutex
\* without unlocking it
MoveReleaseOther_leak(t) ==
  /\ pc[t] = "release_other"
  /\ pc' = [pc EXCEPT ![t] = "release_self"]
  /\ UNCHANGED <<m, held, want, op, key, val, step, loc, ret, exc, pre, ser, completed,
                 fresh, snap, cont, mtx, alive>>

\* leaving the scope: other_lock is destroyed first, then self_lock
MoveReleaseOther(t) ==
  /\ pc[t] = "release_other"
  /\ SetHolder(t, Other(op[t]), "none")
  /\ pc' = [pc EXCEPT ![t] = "release_self"]
  /\ UNCHANGED <<m, want, op, key, val, step, loc, ret, exc, pre, ser, completed,
                 fresh, snap, cont, alive>>

MoveReleaseSelf(t) ==
  /\ pc[t] = "release_self"
  /\ SetHolder(t, This(op[t]), "none")
  /\ pc' = [pc EXCEPT ![t] = "move_return"]
  /\ UNCHANGED <<m, want, op, key, val, step, loc, ret, exc, pre, ser, completed,
                 fresh, snap, cont, alive>>

\* a thread starts constructing C from other; C is constructed once
MoveConstructCall(t, o) ==
  /\ pc[t] = "idle"
  /\ o \in MoveConstructOps
  /\ ~alive
  /\ \A u \in Threads : op[u] \notin MoveConstructOps
  /\ op' = [op EXCEPT ![t] = o]
  /\ pc' = [pc EXCEPT ![t] = "construct"]
  /\ UNCHANGED <<m, held, want, key, val, step, loc, ret, exc, pre, ser, completed,
                 fresh, snap, cont, mtx, alive>>

\* _internal_container(std::move(other._internal_container)), _mutex():
\* C takes over the entries of other, which is reset; C's mutex is new
MoveConstruct(t) ==
  /\ pc[t] = "construct"
  /\ LET s == Other(op[t])
     IN /\ pre' = [pre EXCEPT ![t] = Container(s)]
        /\ SetContainers([x \in {"C", s} |-> IF x = "C" THEN Container(s) ELSE EmptyMap])
  /\ alive' = TRUE
  /\ pc' = [pc EXCEPT ![t] = "move_return"]
  /\ UNCHANGED <<held, want, op, key, val, step, loc, ret, exc, completed, fresh, snap,
                 mtx>>

\* return *this / the constructor returns
MoveReturn(t) ==
  /\ pc[t] = "move_return"
  /\ pc' = [pc EXCEPT ![t] = "idle"]
  /\ op' = [op EXCEPT ![t] = "none"]
  /\ pre' = [pre EXCEPT ![t] = EmptyMap]
  /\ UNCHANGED <<m, held, want, key, val, step, loc, ret, exc, ser, completed, fresh,
                 snap, cont, mtx, alive>>

\* the steps of thread t in a move
MoveSteps(t) ==
  \/ \E o \in MoveAssignOps : MoveAssignCall(t, o)
  \/ MoveLockSelf(t)
  \/ MoveLockOther(t)
  \/ MoveTransfer(t)
  \/ MoveReleaseOther(t)
  \/ MoveReleaseSelf(t)
  \/ \E o \in MoveConstructOps : MoveConstructCall(t, o)
  \/ MoveConstruct(t)
  \/ MoveReturn(t)

\* A holds key 1 and B the other keys when the moves begin
InitMove ==
  /\ m = [j \in {1} |-> ValueFor(j)]
  /\ ser = [j \in {1} |-> ValueFor(j)]
  /\ cont = [x \in Others |-> IF x = "B" THEN [j \in Keys \ {1} |-> ValueFor(j)]
                                         ELSE EmptyMap]
  /\ held = [t \in Threads |-> "none"]
  /\ want = [t \in Threads |-> "none"]
  /\ pc = [t \in Threads |-> "idle"]
  /\ op = [t \in Threads |-> "none"]
  /\ key = [t \in Threads |-> 0]
  /\ val = [t \in Threads |-> DefaultValue]
  /\ step = [t \in Threads |-> 0]
  /\ loc = [t \in Threads |-> nullopt]
  /\ ret = [t \in Threads |-> nullopt]
  /\ exc = [t \in Threads |-> FALSE]
  /\ pre = [t \in Threads |-> EmptyMap]
  /\ completed = 0
  /\ fresh = [k \in Keys |-> nullopt]
  /\ snap = <<>>
  /\ mtx = [x \in Others |-> [t \in Threads |-> "none"]]
  /\ alive = FALSE

\* the built-in operations that run on A while instances are moved
MoveMapOps == {"find", "clear"}

NextMove == Run(MoveMapOps) \/ \E t \in Threads : MoveSteps(t)

SpecMove == InitMove /\ [][NextMove]_vars

\* one thread moves the instances and uses them, no other thread running
MoveAloneOps == {"find", "emplace"}

NextMoveAlone ==
  \/ MoveSteps(1)
  \/ \E mode \in {execute_shared_lock, execute_exclusive_lock} : Call(1, mode)
  \/ \E o \in MoveAloneOps : \E k \in KeysOf(o) : Lock(1, o, k)
  \/ Step(1)
  \/ Throw(1)
  \/ Unlock(1)
  \/ Catch(1)

SpecMoveAlone == InitMove /\ [][NextMoveAlone]_vars

\* re-entering lambdas among find and emplace
ReenterWorkload == ReenterOps \cup {"find", "emplace"}

NextReenter == Run(ReenterWorkload) \/ \E t \in Threads : InnerCall(t) \/ InnerRaise(t)

SpecReenter == Init /\ [][NextReenter]_vars

\* the operations of the terminating workload
LiveOps == {"find", "emplace"}

\* a thread waits for the exclusive lock
ExclusiveWaiting == \E u \in Threads : pc[u] = "lock" /\ want[u] = execute_exclusive_lock

\* the lock granted fairly: std::shared_mutex leaves the order of grants to
\* the implementation; here a shared request does not overtake a waiting
\* exclusive one
FairLock(t) ==
  /\ want[t] = execute_shared_lock => ~ExclusiveWaiting
  /\ \E o \in LiveOps : \E k \in KeysOf(o) : Lock(t, o, k)

NextLive ==
  \E t \in Threads :
    \/ \E mode \in {execute_shared_lock, execute_exclusive_lock} : Call(t, mode)
    \/ FairLock(t)
    \/ Step(t)
    \/ Throw(t)
    \/ Unlock(t)
    \/ Catch(t)

\* a thread inside an operation keeps running, and a thread whose lock can
\* be granted again and again is granted it
Fairness ==
  \A t \in Threads :
    /\ WF_vars(Step(t) \/ Throw(t))
    /\ WF_vars(Unlock(t))
    /\ WF_vars(Catch(t))
    /\ SF_vars(FairLock(t))

SpecLive == Init /\ [][NextLive]_vars /\ Fairness

\* emplace with movable arguments, against find and erase
EmplaceOps == {"emplace", "find", "erase"}

NextEmplace == Run(EmplaceOps) \/ \E t \in Threads : ConstructNode(t)

SpecEmplace == Init /\ [][NextEmplace]_vars

\* mixed_op_worker: every thread runs a sequence of insert, find and erase
\* on keys of a common range (the inserted value is key * 10 here; the
\* test adds the thread's id, which no operation looks at)
MixedOps == {"insert", "find", "erase"}

NextMixed == Run(MixedOps)

SpecMixed == Init /\ [][NextMixed]_vars

TypeOK ==
  /\ DOMAIN m \subseteq Keys \cup BulkKeys
  /\ held \in [Threads -> {"none", "shared", "unique"}]
  /\ pc \in [Threads -> {"idle", "lock", "body", "unlock", "raised", "self_lock",
                        "other_lock", "transfer", "release_other", "release_self",
                        "construct", "move_return", "relock"}]
  /\ op \in [Threads -> Ops \cup MoveAssignOps \cup MoveConstructOps \cup ReenterOps
                        \cup {"none"}]
  /\ \A x \in Others : DOMAIN cont[x] \subseteq Keys
  /\ mtx \in [Others -> [Threads -> {"none", "shared", "unique"}]]
  /\ alive \in BOOLEAN

\* ------------------------------------------------------------- claims
Inside(t) == pc[t] \in {"body", "unlock"}
InsideExclusive == {t \in Threads : Inside(t) /\ op[t] \in ExclusiveOps}
InsideShared == {t \in Threads : Inside(t) /\ op[t] \in SharedOps}
\* the thread has run its lambda to the end and still holds the lock
Returning(t, o) == pc[t] = "unlock" /\ op[t] = o /\ ~exc[t]
\* the step at which the lambda of t stopped: 0 when it ran to its return
StoppedAt(t) == IF pc[t] = "body" \/ exc[t] THEN step[t] ELSE 0

\* C1: the lock is held by nobody, by shared holders only, or by exactly one
\* exclusive holder; the same holds of the threads that are inside the lambda
\* of an exclusive and of a shared operation.
C1_MutualExclusion ==
  LET E == {t \in Threads : held[t] = "unique"}
      S == {t \in Threads : held[t] = "shared"}
  IN /\ Cardinality(E) <= 1
     /\ E # {} => S = {}
     /\ Cardinality(InsideExclusive) <= 1
     /\ InsideExclusive # {} => InsideShared = {}
     /\ \A t \in Threads : Inside(t) => held[t] = LockMode(op[t])

\* a writer holds the lock while another thread waits for it
C1_Witness ==
  \E t, u \in Threads :
    t # u /\ held[t] = "unique" /\ Inside(t) /\ pc[u] = "lock" /\ completed >= 1

\* C2: at every moment the container is what running the exclusive
\* operations one after another (in the order they released the lock, which
\* respects each thread's own order) leaves, followed by the part of the one
\* operation in flight that has run so far; with none in flight it equals the
\* serial result.
C2_Serializable ==
  /\ InsideExclusive = {} => m = ser
  /\ \A t \in InsideExclusive :
       m = Sequential(op[t], ser, key[t], val[t], StoppedAt(t))

\* three exclusive operations have run, issued by threads that competed
C2_Witness ==
  /\ InsideExclusive = {}
  /\ completed = MaxWrites
  /\ \E k \in Keys : Present(m, k) /\ m[k] = ValueFor(k) + 1
  /\ \E t \in Threads : pc[t] = "lock" /\ want[t] = "shared"

\* C3: while a thread is inside the lambda it passed to execute_exclusive no
\* other thread is inside any lambda, the value it read is still the stored
\* one when it writes, and the container differs from the one it found by its
\* own write only: a found key's value is raised by exactly one.
C3_ScopedAtomicity ==
  \A t \in Threads :
    Inside(t) /\ op[t] = "execute_exclusive" =>
      /\ \A u \in Threads \ {t} : ~Inside(u)
      /\ pc[t] = "body" /\ step[t] = 2 => loc[t] = Lookup(m, key[t])
      /\ IF StoppedAt(t) \in {1, 2} \/ ~Present(pre[t], key[t])
           THEN m = pre[t]
           ELSE m = Put(pre[t], key[t], pre[t][key[t]] + 1)

\* a second increment of a key has been written while another thread waits
C3_Witness ==
  \E t, u \in Threads :
    /\ t # u /\ pc[u] = "lock"
    /\ pc[t] = "body" /\ op[t] = "execute_exclusive" /\ step[t] = 3
    /\ Present(m, key[t]) /\ m[key[t]] = ValueFor(key[t]) + 2

\* C4: a shared operation returns what its query gives on the container left
\* by the exclusive operations that have released the lock so far (a prefix
\* of their total order), none of them being in flight while it looks.  It
\* looks between its invocation and its return, and the prefix only grows,
\* so the prefix holds what returned before and nothing invoked after.
C4_Linearizable ==
  \A t \in Threads :
    Returning(t, op[t]) /\ op[t] \in SharedOps =>
      /\ InsideExclusive = {}
      /\ ret[t] = Body(op[t], ser, key[t], val[t], nullopt, 1).ret

\* a find returns a stored value after two writers, with a writer waiting
C4_Witness ==
  \E t, u \in Threads :
    /\ Returning(t, "find") /\ ret[t] = Some(Some(ValueFor(key[t])))
    /\ completed >= 2
    /\ t # u /\ pc[u] = "lock" /\ want[u] = "unique"

\* C5: a thread outside the primitives holds no lock, in particular the one
\* an exception has just left, and the lock can be taken in either mode once
\* no thread is inside.
C5_ReleasedOnException ==
  /\ \A t \in Threads : pc[t] \in {"raised", "idle", "lock"} => held[t] = "none"
  /\ (\A t \in Threads : ~Inside(t)) => CanLock("unique") /\ CanLock("shared")

\* an exception has left an operation and another thread has the lock
C5_Witness ==
  \E t, u \in Threads : pc[t] = "raised" /\ held[u] = "unique" /\ Inside(u)

\* C6: an exclusive operation that ends with an exception leaves the
\* container as it was when the operation began.
C6_AllOrNothing ==
  \A t \in Threads :
    pc[t] = "unlock" /\ exc[t] /\ op[t] \in ExclusiveOps => m = pre[t]

\* C7: from the return of insert(k, v) until a writer of k is granted the
\* lock, k is stored with v and every find(k) returns v.
C7_InsertFindRoundTrip ==
  \A k \in Keys :
    fresh[k] # nullopt =>
      /\ Lookup(m, k) = fresh[k]
      /\ \A t \in Threads :
           Returning(t, "find") /\ key[t] = k => ret[t] = Some(fresh[k])

\* find(k) returns after insert(k, v) returned and another key was written
C7_Witness ==
  \E t \in Threads, j \in Keys :
    /\ Returning(t, "find") /\ fresh[key[t]] # nullopt
    /\ j # key[t] /\ Present(m, j) /\ fresh[j] = nullopt

\* C8: insert(pair) returns true and stores the pair when the key is absent;
\* when it is present it returns false and the container is unchanged.
C8_InsertIfAbsent ==
  \A t \in Threads :
    Returning(t, "insert_pair") =>
      IF Present(pre[t], key[t])
        THEN ret[t] = Some(FALSE) /\ m = pre[t]
        ELSE /\ ret[t] = Some(TRUE)
             /\ DOMAIN m = DOMAIN pre[t] \cup {key[t]}
             /\ m[key[t]] = val[t]
             /\ \A j \in DOMAIN pre[t] : m[j] = pre[t][j]

\* insert(pair) finds its key stored with another value
C8_Witness ==
  \E t \in Threads :
    /\ Returning(t, "insert_pair")
    /\ Present(pre[t], key[t]) /\ pre[t][key[t]] # val[t]

\* C9: insert(key, value) leaves the key stored with the value, the size one
\* larger exactly when the key was absent, and every other key as it was.
C9_InsertOrAssign ==
  \A t \in Threads :
    Returning(t, "insert") =>
      /\ Lookup(m, key[t]) = Some(val[t])
      /\ Size(m) = Size(pre[t]) + (IF Present(pre[t], key[t]) THEN 0 ELSE 1)
      /\ \A j \in Keys \ {key[t]} : Lookup(m, j) = Lookup(pre[t], j)

\* insert(key, value) has overwritten another value, another key being stored
C9_Witness ==
  \E t \in Threads :
    /\ Returning(t, "insert")
    /\ Present(pre[t], key[t]) /\ pre[t][key[t]] # val[t]
    /\ \E j \in Keys \ {key[t]} : Present(m, j)

\* C10: emplace of a present key returns false and leaves its value and the
\* size unchanged; emplace of an absent key returns true and find of the key
\* then returns the constructed value.
C10_EmplaceNoClobber ==
  \A t \in Threads :
    Returning(t, "emplace") =>
      IF Present(pre[t], key[t])
        THEN /\ ret[t] = Some(FALSE)
             /\ Lookup(m, key[t]) = Lookup(pre[t], key[t])
             /\ Size(m) = Size(pre[t])
        ELSE /\ ret[t] = Some(TRUE)
             /\ find_body(m, key[t], val[t], nullopt, 1).ret = Some(Some(val[t]))

\* emplace finds its key stored with another value
C10_Witness ==
  \E t \in Threads :
    /\ Returning(t, "emplace")
    /\ Present(pre[t], key[t]) /\ pre[t][key[t]] # val[t]
    /\ Size(m) = NumKeys

\* C11: erase(k) returns 1 exactly when k was present when it took effect;
\* then the size drops by one, find(k) is empty and the other entries are
\* unchanged; when it returns 0 the container is unchanged.
C11_EraseCount ==
  \A t \in Threads :
    Returning(t, "erase") =>
      IF Present(pre[t], key[t])
        THEN /\ ret[t] = Some(1)
             /\ Size(m) = Size(pre[t]) - 1
             /\ find_body(m, key[t], val[t], nullopt, 1).ret = Some(nullopt)
             /\ \A j \in Keys \ {key[t]} : Lookup(m, j) = Lookup(pre[t], j)
        ELSE /\ ret[t] = Some(0)
             /\ m = pre[t]
             /\ Size(m) = Size(pre[t])

\* erase has removed one of two stored keys
C11_Witness ==
  \E t \in Threads :
    /\ Returning(t, "erase") /\ ret[t] = Some(1)
    /\ Size(pre[t]) >= 2 /\ Size(m) = Size(pre[t]) - 1

\* C12: a second erase(k) right after an erase(k) leaves the container as the
\* first one left it and returns 0; the same holds of two erases run one
\* after the other from any reachable container.
C12_EraseIdempotent ==
  /\ \A t \in Threads :
       Returning(t, "erase") =>
         LET again == erase_body(m, key[t], val[t], nullopt, 1)
         IN again.m = m /\ again.ret = Some(0)
  /\ \A k \in Keys :
       Sequential("erase", Sequential("erase", m, k, DefaultValue, 0), k, DefaultValue, 0)
         = Sequential("erase", m, k, DefaultValue, 0)

\* the first erase removed the key and left another one stored
C12_Witness ==
  \E t \in Threads :
    /\ Returning(t, "erase") /\ Present(pre[t], key[t])
    /\ ~Present(m, key[t]) /\ Size(m) >= 1

\* C13: find(k) returns the stored value of a present key and an empty
\* result for an absent one; it raises for no absent key; and it leaves the
\* container as the finished writers left it, creating no entry.
C13_FindTotal ==
  \A t \in Threads :
    Inside(t) /\ op[t] = "find" =>
      /\ m = ser
      /\ pc[t] = "unlock" /\ exc[t] => Present(m, key[t])
      /\ Returning(t, "find") =>
           IF Present(m, key[t]) THEN ret[t] = Some(Some(m[key[t]]))
                                 ELSE ret[t] = Some(nullopt)

\* find of an absent key returns empty, another key being stored
C13_Witness ==
  \E t \in Threads :
    /\ Returning(t, "find") /\ ret[t] = Some(nullopt)
    /\ ~Present(m, key[t]) /\ Size(m) >= 1

\* the operations that can add a key to the container
InsertingOps == {"insert_pair", "insert", "emplace"}

\* one step: a clear that has just acted leaves no entry, and a key that was
\* absent appears only by a step of an inserting operation on that key
C14_Step ==
  /\ \A t \in Threads :
       (pc'[t] = "unlock" /\ op'[t] = "clear" /\ ~exc'[t]) =>
         /\ m' = EmptyMap
         /\ size_body(m', 0, DefaultValue, nullopt, 1).ret = Some(0)
         /\ empty_body(m', 0, DefaultValue, nullopt, 1).ret = Some(TRUE)
         /\ \A k \in Keys : find_body(m', k, DefaultValue, nullopt, 1).ret = Some(nullopt)
  /\ \A k \in Keys :
       (~Present(m, k) /\ Present(m', k)) =>
         \E t \in Threads :
           /\ pc[t] = "body" /\ held[t] = "unique"
           /\ op[t] \in InsertingOps /\ key[t] = k

\* C14: after clear() has taken effect the container has no entries (size 0,
\* empty true, find empty for every key), and it stays so until the next
\* inserting operation takes effect.
C14_ClearedUntilInsert == [][C14_Step]_vars

\* clear has emptied a container that held two entries
C14_Witness ==
  \E t \in Threads :
    Returning(t, "clear") /\ Size(pre[t]) >= 2 /\ m = EmptyMap

\* what a query returns on the container mm
Answer(o, mm, k) == Body(o, mm, k, DefaultValue, nullopt, 1).ret

\* C15: in every reachable state the queries agree on one state: count(k)
\* is 0 or 1, count(k) = 1 iff contains(k) iff find(k) is non-empty, size()
\* is the number of keys with count 1, and empty() holds iff size() = 0.
C15_QueriesAgree ==
  \A t \in Threads :
    /\ Returning(t, "count") =>
         /\ ret[t] \in {Some(0), Some(1)}
         /\ (ret[t] = Some(1)) <=> (Answer("contains", m, key[t]) = Some(TRUE))
         /\ (ret[t] = Some(1)) <=> (Answer("find", m, key[t]) # Some(nullopt))
    /\ Returning(t, "contains") =>
         (ret[t] = Some(TRUE)) <=> (Answer("count", m, key[t]) = Some(1))
    /\ Returning(t, "find") =>
         (ret[t] # Some(nullopt)) <=> (Answer("count", m, key[t]) = Some(1))
    /\ Returning(t, "size") =>
         ret[t] = Some(Cardinality({k \in Keys : Answer("count", m, k) = Some(1)}))
    /\ Returning(t, "empty") =>
         (ret[t] = Some(TRUE)) <=> (Answer("size", m, 0) = Some(0))
    /\ \A u \in Threads \ {t} :
         /\ (Returning(t, "count") /\ Returning(u, "find") /\ key[t] = key[u]) =>
              ((ret[t] = Some(1)) <=> (ret[u] # Some(nullopt)))
         /\ (Returning(t, "size") /\ Returning(u, "empty")) =>
              ((ret[t] = Some(0)) <=> (ret[u] = Some(TRUE)))

\* count and find answer at once about a stored key of a two-entry container
C15_Witness ==
  \E t, u \in Threads :
    /\ Returning(t, "count") /\ Returning(u, "find") /\ key[t] = key[u]
    /\ ret[t] = Some(1) /\ Size(m) = 2

\* the pairs a vector of copies holds
PairsOf(data) == {data[n] : n \in 1..Len(data)}

\* C16: snapshot() returns exactly one (key, value) pair per entry of the
\* container as it was at one instant between its call and its return (the
\* container the finished writers left, which nobody changes while the
\* shared lock is held); its length is the size at that instant.
C16_SnapshotOneState ==
  \A t \in Threads :
    Returning(t, "snapshot") =>
      LET data == ret[t][1]
      IN /\ m = ser
         /\ Len(data) = Size(ser)
         /\ PairsOf(data) = {<<j, ser[j]>> : j \in DOMAIN ser}
         /\ \A a, b \in 1..Len(data) : data[a][1] = data[b][1] => a = b

\* a snapshot of two entries returns while writers have run and one waits
C16_Witness ==
  \E t, u \in Threads :
    /\ Returning(t, "snapshot") /\ Len(ret[t][1]) = 2
    /\ completed >= 2
    /\ pc[u] = "lock" /\ want[u] = execute_exclusive_lock

\* what a caller reads from the vector held in snap
Observed(data, mm) == [n \in 1..Len(data) |-> PairOf(data[n], mm)]

\* one step: a change of the container leaves what the caller reads from the
\* returned vector as it was, and a change of the vector leaves the container
C17_Step ==
  /\ m' # m => Observed(snap', m') = Observed(snap, m)
  /\ snap' # snap => m' = m

\* C17: a snapshot is independent of the map once returned: no later
\* emplace, erase or clear changes its length or contents, and changing the
\* snapshot leaves the map unchanged.
C17_SnapshotIndependent == [][C17_Step]_vars

\* the caller has sorted a two-entry snapshot and the map has lost entries
C17_Witness ==
  /\ Len(snap) = 2 /\ snap[1][1] < snap[2][1]
  /\ Size(m) < 2
  /\ completed = MaxWrites

Finders == {t \in Threads : Returning(t, "find")}

\* C19: finds running concurrently with no writer each return the stored
\* value of a present key and an empty result for an absent one, leave the
\* container as the finished writers left it, and over distinct looked-up
\* keys the number of non-empty results is the number of those keys present.
C19_ConcurrentFinds ==
  /\ \A t \in Finders :
       /\ InsideExclusive = {}
       /\ m = ser
       /\ ret[t] = Some(Lookup(m, key[t]))
  /\ \A G \in SUBSET Finders :
       (\A t, u \in G : key[t] = key[u] => t = u) =>
         Cardinality({t \in G : ret[t] # Some(nullopt)})
           = Cardinality({key[t] : t \in G} \cap DOMAIN m)

\* two finds hold their results at once, one key stored and the other not
C19_Witness ==
  \E t, u \in Finders :
    /\ key[t] # key[u]
    /\ ret[t] # Some(nullopt) /\ ret[u] = Some(nullopt)

\* no thread holds the exclusive lock or waits for it
NoExclusive ==
  \A u \in Threads :
    /\ held[u] # execute_exclusive_lock
    /\ ~(pc[u] = "lock" /\ want[u] = execute_exclusive_lock)

\* C20: shared operations do not exclude one another: when no thread holds
\* or waits for the exclusive lock, a thread requesting the shared lock can
\* be granted it, however many threads hold it shared; and the threads inside
\* shared operations all hold it shared together.
C20_SharedCoexist ==
  /\ \A t \in Threads :
       (pc[t] = "lock" /\ want[t] = execute_shared_lock /\ NoExclusive) =>
         /\ CanLock(want[t])
         /\ ENABLED Lock(t, "find", 1)
  /\ \A t \in InsideShared : held[t] = execute_shared_lock

\* two threads are inside shared operations at once
C20_Witness ==
  \E t, u \in Threads :
    /\ t # u
    /\ pc[t] = "body" /\ pc[u] = "body"
    /\ op[t] = "find" /\ op[u] = "size"
    /\ held[t] = "shared" /\ held[u] = "shared"

\* C21: execute_shared(op) returns what op computes on the current contents
\* and leaves them unchanged; execute_exclusive(op) returns op's result and
\* the contents afterwards are what op left (the lambda that sums the values
\* and clears returns the sum of the values found and leaves the container
\* empty); the caller holds no lock once the call is over.
C21_ExecuteResults ==
  \A t \in Threads :
    /\ Returning(t, "execute_shared") =>
         /\ ret[t] = Some(IF Present(ser, key[t]) THEN 1 ELSE 0)
         /\ m = ser
    /\ Returning(t, "execute_exclusive") =>
         /\ ret[t] = Some(Present(pre[t], key[t]))
         /\ m = IF Present(pre[t], key[t])
                  THEN Put(pre[t], key[t], pre[t][key[t]] + 1)
                  ELSE pre[t]
    /\ Returning(t, "sum_and_clear") =>
         /\ ret[t] = Some(SumValues(pre[t]))
         /\ m = EmptyMap
    /\ pc[t] \in {"idle", "raised"} => held[t] = "none"

\* the summing lambda returns the sum of two stored values and has cleared
C21_Witness ==
  \E t \in Threads :
    /\ Returning(t, "sum_and_clear")
    /\ Size(pre[t]) = 2
    /\ ret[t] = Some(ValueFor(1) + ValueFor(2))
    /\ m = EmptyMap

\* C22 (the claim as stated): a thread that reads an instance's container
\* holds that instance's lock, and one that writes it holds the lock in
\* exclusive mode, in the built-in operations, in move assignment and in
\* move construction (which reads and empties the source).
C22_AccessUnderLock ==
  \A t \in Threads :
    /\ pc[t] = "body" /\ op[t] \in SharedOps => held[t] \in {"shared", "unique"}
    /\ pc[t] = "body" /\ op[t] \in ExclusiveOps => held[t] = "unique"
    /\ pc[t] = "transfer" =>
         /\ Holders(This(op[t]))[t] = "unique"
         /\ Holders(Other(op[t]))[t] = "unique"
    /\ pc[t] = "construct" => Holders(Other(op[t]))[t] = "unique"

\* the source entries are in the destination, and every mutex is free
MovedAndUnlocked(t) ==
  /\ This(op[t]) # Other(op[t]) => Container(This(op[t])) = pre[t]
  /\ \A x \in {This(op[t]), Other(op[t])} :
       /\ \A u \in Threads : Holders(x)[u] = "none"
       /\ CanLockOn(x, "shared") /\ CanLockOn(x, "unique")

\* C23: with no other thread using either instance, after a move from S to
\* D, D holds exactly the entries S held before it, and the locks of both
\* have no holder, so that shared and exclusive operations on them proceed.
C23_MoveSequential ==
  \A t \in Threads : pc[t] = "move_return" => MovedAndUnlocked(t)

\* a move assignment has replaced the entries of A by those of B
C23_Witness ==
  \E t \in Threads :
    /\ pc[t] = "move_return" /\ op[t] = "A=move(B)"
    /\ m = pre[t] /\ Size(m) >= 1 /\ ~Present(m, 1)

\* C24 (the claim as stated): with threads running move assignments
\* between the instances, no state is reached in which each of two threads
\* waits for a mutex the other holds.
C24_NoMoveDeadlock ==
  \A t, u \in Threads :
    ~ /\ t # u
      /\ pc[t] = "other_lock" /\ pc[u] = "other_lock"
      /\ Holders(Other(op[t]))[u] = "unique"
      /\ Holders(Other(op[u]))[t] = "unique"

\* the transfer of a move assignment has begun and is not complete
Partial(t) == pc[t] = "transfer" /\ step[t] \in {2, 3}

\* C25: the transfer of D = move(S) runs with the exclusive locks of both
\* held: while it is partly done no other thread holds the lock of D or of
\* S and no built-in operation is inside either of them, so every operation
\* runs on the contents before the move or on those after it.
C25_MoveAtomic ==
  \A t \in Threads :
    Partial(t) =>
      \A u \in Threads \ {t} :
        /\ Holders(This(op[t]))[u] = "none"
        /\ Holders(Other(op[t]))[u] = "none"
        /\ ~Inside(u)

\* a transfer into A is partly done while another thread waits to use A
C25_Witness ==
  \E t, u \in Threads :
    /\ Partial(t) /\ op[t] = "A=move(B)" /\ m = EmptyMap
    /\ pc[u] = "lock"

\* C26 (the claim as stated): a thread whose lambda calls an operation of
\* the same instance never comes out of that inner call.
C26_ReentryNeverReturns ==
  \A t \in Threads : op[t] \in ReenterOps => pc[t] \in {"body", "relock"}

\* C26 (amended): the inner call never returns normally.  While the thread
\* waits in it the inner lock cannot be granted, and neither can the
\* exclusive lock to any thread (nor the shared lock, when the thread holds
\* the mutex exclusively); a thread holding it shared stays there for ever;
\* one holding it exclusively either stays or leaves with an error.
C26_ReentryBlocksOrRaises ==
  \A t \in Threads :
    /\ op[t] \in ReenterOps => pc[t] \in {"body", "relock"} \/ (pc[t] = "unlock" /\ exc[t])
    /\ op[t] = "shared_calls_insert" => pc[t] \in {"body", "relock"}
    /\ pc[t] = "relock" =>
         /\ ~CanLock(InnerLock(op[t]))
         /\ ~CanLock("unique")
         /\ held[t] = "unique" => ~CanLock("shared")

\* a lambda under execute_shared waits in insert while another thread waits
\* for the exclusive lock
C26_Witness ==
  \E t, u \in Threads :
    /\ pc[t] = "relock" /\ op[t] = "shared_calls_insert" /\ held[t] = "shared"
    /\ pc[u] = "lock" /\ want[u] = execute_exclusive_lock

\* no deadlock: when a thread waits for the lock, a waiting thread can be
\* granted it or a thread inside an operation can step; an operation holds
\* the lock of its primitive while inside, and a thread outside holds none
C27_Safe ==
  /\ (\E t \in Threads : pc[t] = "lock") =>
       \/ \E u \in Threads : pc[u] = "lock" /\ CanLock(want[u])
       \/ \E u \in Threads : Inside(u)
  /\ \A t \in Threads :
       /\ Inside(t) => held[t] = LockMode(op[t]) /\ held[t] = want[t]
       /\ ~Inside(t) => held[t] = "none"

\* C27: with threads invoking built-in operations and terminating lambdas
\* on one instance the system never deadlocks, every operation holds its
\* lock exactly while inside, and under fair lock granting every invoked
\* operation eventually returns (or raises) with the lock released.
C27_Terminates ==
  /\ []C27_Safe
  /\ \A t \in Threads : (pc[t] # "idle") ~> (pc[t] = "idle" /\ held[t] = "none")

\* a thread waits for the exclusive lock while another is inside find,
\* after an exclusive operation has run
C27_Witness ==
  \E t, u \in Threads :
    /\ pc[t] = "lock" /\ want[t] = execute_exclusive_lock
    /\ pc[u] = "body" /\ op[u] = "find" /\ held[u] = "shared"
    /\ completed >= 1

\* C28 (the claim as stated): when emplace finds the key present, no element
\* has been constructed from the arguments and the caller's arguments have
\* the values they had before the call.
C28_EmplaceArgsUntouched ==
  \A t \in Threads :
    (Returning(t, "emplace") /\ ret[t] = Some(FALSE)) =>
      /\ loc[t] = nullopt
      /\ ArgumentAfter(t) = val[t]

\* every worker has finished its sequence
AllFinished == \A t \in Threads : pc[t] = "idle"

====
